---- MODULE Spec2Model ----
(***************************************************************************)
(* A model of ai_sql (src/main.py): the translation of an English query    *)
(* to SQL by a generative model, followed by the regex-based validation of *)
(* the generated SQL against the request's column and table names.         *)
(*                                                                         *)
(* Python strings are TLA+ strings; positions are 1-based.  Every regular  *)
(* expression of the source is an operator that computes what Python's re  *)
(* module computes for it (leftmost match, greedy quantifiers with         *)
(* backtracking), over ASCII text.                                         *)
(***************************************************************************)
EXTENDS Integers, Sequences, FiniteSets, TLC

(***************************************************************************)
(* Characters and character classes of the regular expressions.            *)
(***************************************************************************)
\* s[i], "" outside the text
Ch(s, i) == IF 1 <= i /\ i <= Len(s) THEN SubSeq(s, i, i) ELSE ""

\* \s over ASCII text
Space == {" ", "\t", "\n"}

\* \d
Digit == {"0", "1", "2", "3", "4", "5", "6", "7", "8", "9"}

UpperLetters == <<"A", "B", "C", "D", "E", "F", "G", "H", "I", "J", "K", "L", "M",
                  "N", "O", "P", "Q", "R", "S", "T", "U", "V", "W", "X", "Y", "Z">>

LowerLetters == <<"a", "b", "c", "d", "e", "f", "g", "h", "i", "j", "k", "l", "m",
                  "n", "o", "p", "q", "r", "s", "t", "u", "v", "w", "x", "y", "z">>

Letter == {UpperLetters[i] : i \in 1..26} \cup {LowerLetters[i] : i \in 1..26}

\* [a-zA-Z_]
IdStart == Letter \cup {"_"}

\* [a-zA-Z0-9_], which is also \w over ASCII text
WordCh == IdStart \cup Digit

LowerOf == [c \in {UpperLetters[i] : i \in 1..26} |->
              LowerLetters[CHOOSE i \in 1..26 : UpperLetters[i] = c]]

\* The least and the greatest member of a non-empty set of integers.
Least(S) == CHOOSE x \in S : \A y \in S : x <= y

Greatest(S) == CHOOSE x \in S : \A y \in S : x >= y

\* The least member of S, 0 when S is empty.
FirstOf(S) == IF S = {} THEN 0 ELSE Least(S)

\* str.lower() of s[lo .. hi], by halves
RECURSIVE LowerOfRange(_, _, _)
LowerOfRange(s, lo, hi) ==
    IF lo > hi THEN ""
    ELSE IF lo = hi
         THEN (IF Ch(s, lo) \in DOMAIN LowerOf THEN LowerOf[Ch(s, lo)] ELSE Ch(s, lo))
    ELSE LowerOfRange(s, lo, (lo + hi) \div 2) \o LowerOfRange(s, (lo + hi) \div 2 + 1, hi)

\* str.lower()
Lower(s) == LowerOfRange(s, 1, Len(s))

\* The index after the longest run of characters of class cls that starts at i.
RunEnd(s, i, cls) ==
    Least({j \in i..(Len(s) + 1) : j > Len(s) \/ Ch(s, j) \notin cls})

\* The index before the longest run of characters of class cls that ends at i.
RunStartBack(s, i, cls) ==
    Greatest({j \in 0..i : j = 0 \/ Ch(s, j) \notin cls})

\* str.strip()
Strip(s) ==
    LET a == RunEnd(s, 1, Space)
        b == RunStartBack(s, Len(s), Space)
    IN  IF a > b THEN "" ELSE SubSeq(s, a, b)

StartsAt(s, i, lit) ==
    /\ i >= 1
    /\ i + Len(lit) - 1 <= Len(s)
    /\ SubSeq(s, i, i + Len(lit) - 1) = lit

\* The first index >= from at which lit occurs in s, 0 when there is none.
Find(s, lit, from) ==
    FirstOf({i \in from..(Len(s) - Len(lit) + 1) : StartsAt(s, i, lit)})

Contains(s, lit) == Find(s, lit, 1) > 0

\* \b at the gap before position i (1 .. Len(s) + 1)
WordBoundary(s, i) ==
    (i > 1 /\ Ch(s, i - 1) \in WordCh) # (i <= Len(s) /\ Ch(s, i) \in WordCh)

\* str.startswith
StartsWith(s, p) == StartsAt(s, 1, p)

AllDigits(s) == Len(s) > 0 /\ \A i \in 1..Len(s) : Ch(s, i) \in Digit

(***************************************************************************)
(* difflib.SequenceMatcher(None, a, b).ratio(), as _similar uses it.       *)
(***************************************************************************)
\* Whether a[i .. i+k-1] = b[j .. j+k-1]
BlockAt(a, i, b, j, k) == SubSeq(a, i, i + k - 1) = SubSeq(b, j, j + k - 1)

\* find_longest_match on a[alo..ahi], b[blo..bhi]: the longest common block,
\* of those the one that starts earliest in a, of those the earliest in b.
\* <<i, j, k>>, with k = 0 when the ranges share no character.
RECURSIVE LongestOfSize(_, _, _, _, _, _, _)
LongestOfSize(a, alo, ahi, b, blo, bhi, k) ==
    IF k = 0 THEN <<alo, blo, 0>>
    ELSE LET starts == {i \in alo..(ahi - k + 1) :
                          \E j \in blo..(bhi - k + 1) : BlockAt(a, i, b, j, k)}
         IN  IF starts = {} THEN LongestOfSize(a, alo, ahi, b, blo, bhi, k - 1)
             ELSE LET i == Least(starts)
                      j == Least({x \in blo..(bhi - k + 1) : BlockAt(a, i, b, x, k)})
                  IN  <<i, j, k>>

Min2(x, y) == IF x <= y THEN x ELSE y

find_longest_match(a, alo, ahi, b, blo, bhi) ==
    LongestOfSize(a, alo, ahi, b, blo, bhi, Min2(ahi - alo + 1, bhi - blo + 1))

\* The total size of get_matching_blocks: the longest block, then the same
\* to its left and to its right.
RECURSIVE MatchedSize(_, _, _, _, _, _)
MatchedSize(a, alo, ahi, b, blo, bhi) ==
    IF alo > ahi \/ blo > bhi THEN 0
    ELSE LET m == find_longest_match(a, alo, ahi, b, blo, bhi)
         IN  IF m[3] = 0 THEN 0
             ELSE m[3] + MatchedSize(a, alo, m[1] - 1, b, blo, m[2] - 1)
                       + MatchedSize(a, m[1] + m[3], ahi, b, m[2] + m[3], bhi)

\* _similar(a, b) >= 0.75, i.e. 2 * M / (|a| + |b|) >= 3 / 4 (ratio is 1.0
\* for two empty strings)
SimilarEnough(a, b) ==
    IF Len(a) + Len(b) = 0 THEN TRUE
    ELSE 8 * MatchedSize(a, 1, Len(a), b, 1, Len(b)) >= 3 * (Len(a) + Len(b))

(***************************************************************************)
(* Python values, tagged with their type.                                  *)
(***************************************************************************)
PyStr(s) == [t |-> "str", v |-> s]

PyInt(n) == [t |-> "int", v |-> n]

PyNone == [t |-> "NoneType"]

PyList(items) == [t |-> "list", v |-> items]

\* fields: a function from keys to Python values
PyDict(fields) == [t |-> "dict", v |-> fields]

\* dict.get(key, default)
DictGet(d, key, default) == IF key \in DOMAIN d.v THEN d.v[key] ELSE default

(***************************************************************************)
(* _normalize_columns                                                      *)
(***************************************************************************)
RECURSIVE NormalizeFrom(_, _)
NormalizeFrom(items, i) ==
    IF i > Len(items) THEN <<>>
    ELSE IF items[i].t = "str" THEN <<items[i]>> \o NormalizeFrom(items, i + 1)
    ELSE IF items[i].t = "dict" /\ "name" \in DOMAIN items[i].v
         THEN <<items[i].v["name"]>> \o NormalizeFrom(items, i + 1)
    ELSE NormalizeFrom(items, i + 1)

_normalize_columns(raw_columns_list) ==
    IF raw_columns_list.t = "list" THEN NormalizeFrom(raw_columns_list.v, 1) ELSE <<>>

\* ", ".join(columns_list) raises TypeError unless every item is a str.
JoinRaises(cols) == \E i \in 1..Len(cols) : cols[i].t # "str"

(***************************************************************************)
(* The sanity filters, on sql_lower.                                       *)
(***************************************************************************)
\* parts[1] \s{minws,} parts[2] \s{minws,} ... matched at i.  No part starts
\* with a whitespace character, so each \s* or \s+ takes the whole run.
RECURSIVE MatchSpaced(_, _, _, _)
MatchSpaced(s, i, parts, minws) ==
    /\ StartsAt(s, i, parts[1])
    /\ \/ Len(parts) = 1
       \/ LET j == i + Len(parts[1])
              k == RunEnd(s, j, Space)
          IN  k - j >= minws /\ MatchSpaced(s, k, Tail(parts), minws)

SearchSpaced(s, parts, minws) ==
    \E i \in 1..Len(s) : MatchSpaced(s, i, parts, minws)

\* r"1\s*=\s*0", r"0\s*=\s*1", r"where\s+false", r"1\s*!=\s*1", r"1\s*<>\s*1"
always_false_patterns ==
    << [parts |-> <<"1", "=", "0">>, minws |-> 0],
       [parts |-> <<"0", "=", "1">>, minws |-> 0],
       [parts |-> <<"where", "false">>, minws |-> 1],
       [parts |-> <<"1", "!=", "1">>, minws |-> 0],
       [parts |-> <<"1", "<>", "1">>, minws |-> 0] >>

\* The patterns without their \s* and \s+
AlwaysFalseNoSpaces(sql_lower) ==
    \E p \in 1..Len(always_false_patterns) :
        Contains(sql_lower,
                 always_false_patterns[p].parts[1] \o always_false_patterns[p].parts[2]
                 \o (IF Len(always_false_patterns[p].parts) = 3
                     THEN always_false_patterns[p].parts[3] ELSE ""))

AlwaysFalse(sql_lower) ==
    \E p \in 1..Len(always_false_patterns) :
        SearchSpaced(sql_lower, always_false_patterns[p].parts,
                     always_false_patterns[p].minws)

\* r"select\s+'[^']*error[^']*'"
SelectErrorLiteral(s) ==
    \E i \in 1..Len(s) :
        /\ StartsAt(s, i, "select")
        /\ LET j == i + 6
               k == RunEnd(s, j, Space)
           IN  /\ k > j
               /\ StartsAt(s, k, "'")
               /\ LET q == Find(s, "'", k + 1)
                  IN  q > 0 /\ Contains(SubSeq(s, k + 1, q - 1), "error")

\* r"column .* does not exist" ('.' matches no newline)
ColumnDoesNotExist(s) ==
    \E i \in 1..Len(s) :
        /\ StartsAt(s, i, "column ")
        /\ \E j \in (i + 7)..Len(s) :
              /\ StartsAt(s, j, " does not exist")
              /\ ~Contains(SubSeq(s, i + 7, j - 1), "\n")

SelfReportedError(sql_lower) ==
    \/ SelectErrorLiteral(sql_lower)
    \/ Contains(sql_lower, "does not exist")
    \/ ColumnDoesNotExist(sql_lower)

(***************************************************************************)
(* re.sub(r"'(?:[^']|'')*'", "''", sql) and the same for '"'.              *)
(***************************************************************************)
\* From p, just after an opening q: the index of the closing q, 0 when the
\* pattern does not match.  The body takes a non-quote character or a
\* doubled quote, as many as it can; the closing quote is the quote it stops
\* at, or, when it runs to the end of the text, the first quote of the last
\* doubled quote it took (backtracking).
RECURSIVE LiteralEnd(_, _, _, _)
LiteralEnd(s, p, q, lastPair) ==
    LET n == Find(s, q, p)
    IN  IF n = 0 THEN lastPair
        ELSE IF n < Len(s) /\ Ch(s, n + 1) = q THEN LiteralEnd(s, n + 2, q, n)
        ELSE n

\* The text from i on, each match replaced by two q.
RECURSIVE StripFrom(_, _, _)
StripFrom(s, i, q) ==
    LET o == Find(s, q, i)
        e == LiteralEnd(s, o + 1, q, 0)
    IN  IF o = 0 THEN SubSeq(s, i, Len(s))
        ELSE IF e > 0 THEN SubSeq(s, i, o - 1) \o q \o q \o StripFrom(s, e + 1, q)
        ELSE SubSeq(s, i, o) \o StripFrom(s, o + 1, q)

StripLiterals(sql) == StripFrom(StripFrom(sql, 1, "'"), 1, "\"")

(***************************************************************************)
(* The backticked names: re.findall over sql_no_strings of a backtick, one  *)
(* or more characters other than a backtick (the group), and a backtick.   *)
(***************************************************************************)
\* The backtick, written "~" here: a backtick cannot stand in a TLA+ string.
\* No other text of the model holds a "~".
BT == "~"

RECURSIVE BacktickedFrom(_, _)
BacktickedFrom(s, i) ==
    LET o == Find(s, BT, i)
        c == IF o = 0 THEN 0 ELSE Find(s, BT, o + 1)
    IN  IF c = 0 THEN <<>>
        ELSE IF c = o + 1 THEN BacktickedFrom(s, o + 1)
        ELSE <<SubSeq(s, o + 1, c - 1)>> \o BacktickedFrom(s, c + 1)

Backticked(s) == BacktickedFrom(s, 1)

(***************************************************************************)
(* _extract_clause                                                         *)
(***************************************************************************)
\* re.search(rf"(?i)\b{kw}\b", rest).start(), 0 when there is no match
StopAt(rest, lrest, kw) ==
    FirstOf({i \in 1..Len(rest) : /\ StartsAt(lrest, i, kw)
                                  /\ WordBoundary(rest, i)
                                  /\ WordBoundary(rest, i + Len(kw))})

\* re.compile(rf"(?i){start_kw}\s+(.*)", re.S).search(sql): the start of
\* group 1, 0 when there is no match
ClauseStart(s, ls, kw) ==
    LET i == FirstOf({j \in 1..Len(s) : /\ StartsAt(ls, j, kw)
                                        /\ Ch(s, j + Len(kw)) \in Space})
    IN  IF i = 0 THEN 0 ELSE RunEnd(s, i + Len(kw), Space)

_extract_clause(sql, start_kw, stop_kws) ==
    LET g == ClauseStart(sql, Lower(sql), start_kw)
    IN  IF g = 0 THEN ""
        ELSE LET rest == SubSeq(sql, g, Len(sql))
                 lrest == Lower(rest)
                 hits == {StopAt(rest, lrest, stop_kws[k]) :
                             k \in 1..Len(stop_kws)} \ {0}
             IN  IF hits = {} THEN rest
                 ELSE SubSeq(rest, 1, Least(hits) - 1)

(***************************************************************************)
(* The cleaning of the SELECT text and the tokenizers.                     *)
(***************************************************************************)
\* re.sub(r"(?i)\bas\s+[a-zA-Z_][a-zA-Z0-9_]*", "", s)
AsAliasEnd(s, ls, i) ==
    IF /\ StartsAt(ls, i, "as")
       /\ WordBoundary(s, i)
       /\ RunEnd(s, i + 2, Space) > i + 2
       /\ RunEnd(s, i + 2, Space) <= Len(s)
       /\ Ch(s, RunEnd(s, i + 2, Space)) \in IdStart
    THEN RunEnd(s, RunEnd(s, i + 2, Space), WordCh)
    ELSE 0

RECURSIVE RemoveAsFrom(_, _, _)
RemoveAsFrom(s, ls, i) ==
    LET m == FirstOf({j \in i..Len(s) : AsAliasEnd(s, ls, j) > 0})
    IN  IF m = 0 THEN SubSeq(s, i, Len(s))
        ELSE SubSeq(s, i, m - 1) \o RemoveAsFrom(s, ls, AsAliasEnd(s, ls, m))

RemoveAsAliases(s) == RemoveAsFrom(s, Lower(s), 1)

\* re.sub(r"\b[a-zA-Z_][a-zA-Z0-9_]*\s+[a-zA-Z_][a-zA-Z0-9_]*\b",
\*        lambda m: m.group(0).split()[0], s)
\* <<end of the first identifier, end of the match>> (exclusive), <<0, 0>>
\* when the pattern does not match at i
PairAt(s, i) ==
    IF i <= Len(s) /\ Ch(s, i) \in IdStart /\ WordBoundary(s, i)
    THEN LET e1 == RunEnd(s, i, WordCh)
             w == RunEnd(s, e1, Space)
         IN  IF w > e1 /\ w <= Len(s) /\ Ch(s, w) \in IdStart
             THEN <<e1, RunEnd(s, w, WordCh)>>
             ELSE <<0, 0>>
    ELSE <<0, 0>>

RECURSIVE CollapseFrom(_, _)
CollapseFrom(s, i) ==
    LET m == FirstOf({j \in i..Len(s) : PairAt(s, j)[1] > 0})
    IN  IF m = 0 THEN SubSeq(s, i, Len(s))
        ELSE SubSeq(s, i, PairAt(s, m)[1] - 1) \o CollapseFrom(s, PairAt(s, m)[2])

CollapsePairs(s) == CollapseFrom(s, 1)

\* re.findall(r"\b[a-zA-Z_][a-zA-Z0-9_]*\b", s)
RECURSIVE TokensFrom(_, _)
TokensFrom(s, i) ==
    LET m == FirstOf({j \in i..Len(s) : Ch(s, j) \in IdStart /\ WordBoundary(s, j)})
    IN  IF m = 0 THEN <<>>
        ELSE <<SubSeq(s, m, RunEnd(s, m, WordCh) - 1)>> \o TokensFrom(s, RunEnd(s, m, WordCh))

Tokens(s) == TokensFrom(s, 1)

\* re.findall(r"[a-zA-Z0-9_]+", s)
RECURSIVE WordsFrom(_, _)
WordsFrom(s, i) ==
    LET m == FirstOf({j \in i..Len(s) : Ch(s, j) \in WordCh})
    IN  IF m = 0 THEN <<>>
        ELSE <<SubSeq(s, m, RunEnd(s, m, WordCh) - 1)>> \o WordsFrom(s, RunEnd(s, m, WordCh))

Words(s) == WordsFrom(s, 1)

\* re.sub(r"\s+", "_", s)
RECURSIVE UnderscoreFrom(_, _)
UnderscoreFrom(s, i) ==
    LET m == FirstOf({j \in i..Len(s) : Ch(s, j) \in Space})
    IN  IF m = 0 THEN SubSeq(s, i, Len(s))
        ELSE SubSeq(s, i, m - 1) \o "_" \o UnderscoreFrom(s, RunEnd(s, m, Space))

UnderscoreSpaces(s) == UnderscoreFrom(s, 1)

Range(seq) == {seq[i] : i \in 1..Len(seq)}

(***************************************************************************)
(* The allowed names, matches_allowed, the candidates and the unknowns.    *)
(* names: the column names (strings); table_name: a string.                *)
(***************************************************************************)
TableWords(table_name) ==
    IF table_name # "" THEN Range(Words(Lower(table_name))) ELSE {}

allowed_words(names, table_name) ==
    UNION {Range(Words(Lower(names[i]))) : i \in 1..Len(names)}
        \cup TableWords(table_name)

allowed_full(names, table_name) ==
    {UnderscoreSpaces(Lower(names[i])) : i \in 1..Len(names)}
        \cup TableWords(table_name)

\* matches_allowed with both prefix tests required of every allowed word
matches_allowed_all_prefix(ident, aw, af) ==
    LET n == Strip(Lower(ident))
    IN  \/ AllDigits(n)
        \/ n \in af
        \/ n \in aw
        \/ \A w \in aw : StartsWith(n, w) \/ StartsWith(w, n)
        \/ \E w \in aw : SimilarEnough(n, w)
        \/ \E f \in af : SimilarEnough(n, f)

matches_allowed(ident, aw, af) ==
    LET n == Strip(Lower(ident))
    IN  \/ AllDigits(n)
        \/ n \in af
        \/ n \in aw
        \/ \E w \in aw : StartsWith(n, w) \/ StartsWith(w, n)
        \/ \E w \in aw : SimilarEnough(n, w)
        \/ \E f \in af : SimilarEnough(n, f)

sql_keywords ==
    {"select", "from", "where", "and", "or", "order", "by", "group", "having",
     "limit", "offset", "asc", "desc", "join", "left", "right", "inner", "on",
     "as", "in", "is", "null", "not", "between", "like", "distinct", "count",
     "sum", "avg", "min", "max", "case", "when", "then", "else"}

SelectPart(sql_no_strings) == _extract_clause(sql_no_strings, "select", <<"from">>)

SelectPartClean(select_part) == CollapsePairs(RemoveAsAliases(select_part))

WherePart(sql_no_strings) ==
    _extract_clause(sql_no_strings, "where", <<"group", "order", "limit", ";">>)

\* candidates, from the backticked names and the two token lists
Candidates(backticked, tokens_select, tokens_where) ==
    {UnderscoreSpaces(Lower(backticked[i])) : i \in 1..Len(backticked)}
        \cup UNION {Range(Words(Lower(backticked[i]))) : i \in 1..Len(backticked)}
        \cup {Lower(t) : t \in Range(tokens_select \o tokens_where)}

\* The candidates the loop over candidates does not skip.
Kept(cands) == {c \in cands : c # "" /\ c \notin sql_keywords /\ Len(c) > 1}

Unknowns(cands, aw, af) == {c \in Kept(cands) : ~matches_allowed(c, aw, af)}

(***************************************************************************)
(* The model's text and json.loads.  A text is a sequence of lexical       *)
(* tokens: a brace, the key "sql" with its colon, a JSON string, a number, *)
(* null, or a word of prose.  The texts of this model nest no objects.     *)
(***************************************************************************)
LBrace == [k |-> "{"]

RBrace == [k |-> "}"]

KeySql == [k |-> "key", v |-> "sql"]

JStr(s) == [k |-> "str", v |-> s]

JNum == [k |-> "num", v |-> "5"]

JNull == [k |-> "null"]

Prose == [k |-> "word", v |-> "Here"]

IsScalar(tok) == tok.k \in {"str", "num", "null"}

ScalarValue(tok) ==
    IF tok.k = "str" THEN PyStr(tok.v)
    ELSE IF tok.k = "num" THEN PyInt(tok.v)
    ELSE PyNone

\* Whether json.loads(text) returns (it raises JSONDecodeError otherwise)
JsonLoadsOk(text) ==
    \/ Len(text) = 1 /\ IsScalar(text[1])
    \/ Len(text) = 2 /\ text[1] = LBrace /\ text[2] = RBrace
    \/ /\ Len(text) = 4
       /\ text[1] = LBrace
       /\ text[2] = KeySql
       /\ IsScalar(text[3])
       /\ text[4] = RBrace

\* json.loads(text), where JsonLoadsOk(text)
JsonLoads(text) ==
    IF Len(text) = 1 THEN ScalarValue(text[1])
    ELSE IF Len(text) = 2 THEN PyDict(<<>>)
    ELSE PyDict([sql |-> ScalarValue(text[3])])

\* re.search(r"(\{.*\})", json_text, re.S).group(1): from the first "{" to
\* the last "}" after it; <<>> with found = FALSE when there is no match
BraceSpan(text) ==
    LET opens == {i \in 1..Len(text) : text[i] = LBrace}
        first == Least(opens)
        closes == {i \in 1..Len(text) : text[i] = RBrace /\ i > first}
        last == Greatest(closes)
    IN  IF opens = {} \/ closes = {} THEN [found |-> FALSE, span |-> <<>>]
        ELSE [found |-> TRUE, span |-> SubSeq(text, first, last)]

\* SQLResult.model_validate(json_obj) returns (it raises otherwise)
ModelValidateOk(json_obj) ==
    /\ json_obj.t = "dict"
    /\ "sql" \in DOMAIN json_obj.v
    /\ json_obj.v["sql"].t = "str"

\* (json_obj.get("sql") or "").strip() without the strip
SqlOfUnstripped(json_obj) == DictGet(json_obj, "sql", PyStr("")).v

\* (json_obj.get("sql") or "").strip(), for a validated json_obj
SqlOf(json_obj) == Strip(DictGet(json_obj, "sql", PyStr("")).v)

(***************************************************************************)
(* The requests and the texts the generative model may answer with.        *)
(***************************************************************************)
\* The longest generated SQL, in lexemes after its opening words.
MaxLex == 3

RECURSIVE Concat(_)
Concat(parts) == IF parts = <<>> THEN "" ELSE Head(parts) \o Concat(Tail(parts))

\* The SQL texts that open with head and go on with up to MaxLex lexemes.
Family(head, lexemes) ==
    {head \o Concat(ls) : ls \in UNION {[1..n -> lexemes] : n \in 0..MaxLex}}

\* The request of the repository's own test run, cut to two columns, with an
\* entry that has no name and an entry that is neither a string nor an object.
ScenarioBody ==
    PyDict([table_name |-> PyStr("A4Zi"),
            columns_list |-> PyList(<<PyStr("Roll_No"),
                                      PyDict([name |-> PyStr("Candidate Last Name"),
                                              type |-> PyStr("text")]),
                                      PyDict([type |-> PyStr("number")]),
                                      PyInt("7")>>),
            query |-> PyStr("Show everyone whose last name ends with y")])

EmptyBody ==
    PyDict([table_name |-> PyStr(""), columns_list |-> PyList(<<>>),
            query |-> PyStr("Show everything")])

\* A column whose name holds quote characters.
QuoteBody ==
    PyDict([table_name |-> PyStr("t"), columns_list |-> PyList(<<PyStr("'ab'")>>),
            query |-> PyStr("Show ab")])

\* No table_name, no query, and a columns_list that is not a list.
LooseBody == PyDict([columns_list |-> PyStr("Roll_No")])

\* A column whose name is not a string.
NumberNameBody ==
    PyDict([table_name |-> PyStr("A4Zi"),
            columns_list |-> PyList(<<PyDict([name |-> PyInt("5")])>>),
            query |-> PyStr("Show five")])

\* request.get_json() of the JSON text null
NoneBody == PyNone

Bodies == {ScenarioBody, EmptyBody, QuoteBody, LooseBody, NumberNameBody, NoneBody}

SelectLexemes ==
    {"DISTINCT ", "salary", "Roll_No", ", ", " FROM A4Zi", "~Candidate Last Name~",
     " AS sal"}

WhereLexemes == {"Roll_No = 1", ";", " zq", "zq", " ORDER BY ", " LIMIT 2"}

LiteralLexemes ==
    {"\"it's\"", "'zq'", "'it''s'", "\"a \"\"zq\"\" b\"", "'say \"zq\"'",
     " AND Roll_No = "}

FilterLexemes ==
    {"'error' ", "salary ", "Roll_No ", "WHERE 1=0", "wHeRe 1 =\t0",
     "WHERE Roll_No = 10", "does not exist "}

EmptyLexemes ==
    {"1", "a", "name", " FROM tbl", " WHERE name = 2", " ORDER BY g1", "~22~"}

QuoteLexemes == {"~'ab'~", "~'AB'~", " WHERE ", " = 1", " AND "}

\* The SQL the model may write for a request.
ModelSqls(b) ==
    IF b = ScenarioBody
    THEN Family("SELECT ", SelectLexemes)
            \cup Family("SELECT Roll_No FROM A4Zi WHERE ", WhereLexemes)
            \cup Family("SELECT Roll_No FROM A4Zi WHERE Roll_No = ", LiteralLexemes)
            \cup Family("SELECT ", FilterLexemes)
    ELSE IF b = EmptyBody THEN Family("SELECT ", EmptyLexemes)
    ELSE IF b = QuoteBody THEN Family("SELECT ", QuoteLexemes)
    ELSE {"SELECT 1", "  SELECT 1\n", "", " \t"}

\* The text of a well-formed answer with the given sql value.
Direct(value) == <<LBrace, KeySql, value, RBrace>>

\* The answers that are not one object with a string sql.
OddTexts ==
    { <<>>, <<Prose>>, <<LBrace>>, <<RBrace, Prose, LBrace>>,
      <<Prose>> \o Direct(JStr("SELECT 1")) \o <<Prose>>,
      <<Prose, LBrace, Prose, RBrace>>,
      Direct(JStr("SELECT 1")) \o Direct(JStr("SELECT 2")),
      Direct(JNum), Direct(JNull), <<LBrace, RBrace>>, <<JNum>>, <<JStr("SELECT 1")>>,
      <<Prose>> \o Direct(JNum) }

ModelTexts(b) == {Direct(JStr(q)) : q \in ModelSqls(b)} \cup OddTexts

(***************************************************************************)
(* One call of ai_sql, step by step.                                       *)
(***************************************************************************)
VARIABLES
    body,             \* the argument
    api_key,          \* whether GEMINI_API_KEY is set
    pc,               \* the step to run next, "done" after the call has ended
    ran,              \* the steps run so far
    table_name, columns_list,
    calls,            \* the number of generate_content invocations
    call_failed,      \* whether generate_content raised
    json_text, json_obj, recovered,
    sql, sql_no_strings, backticked, select_part_clean, where_part, candidates,
    result,           \* the value returned, [status |-> "none"] before
    raised            \* the exception that left ai_sql, "" when none did

vars == <<body, api_key, pc, ran, table_name, columns_list, calls, call_failed,
          json_text, json_obj, recovered, sql, sql_no_strings, backticked,
          select_part_clean, where_part, candidates, result, raised>>

NoResult == [status |-> "none"]

Success(q) == [status |-> "success", sql |-> q]

Error(m) == [status |-> "error", message |-> m]

Init ==
    /\ body \in Bodies
    /\ api_key \in BOOLEAN
    /\ pc = "client"
    /\ ran = {}
    /\ table_name = ""
    /\ columns_list = <<>>
    /\ calls = 0
    /\ call_failed = FALSE
    /\ json_text = <<>>
    /\ json_obj = PyNone
    /\ recovered = FALSE
    /\ sql = ""
    /\ sql_no_strings = ""
    /\ backticked = <<>>
    /\ select_part_clean = ""
    /\ where_part = ""
    /\ candidates = {}
    /\ result = NoResult
    /\ raised = ""

\* The step at pc runs and hands over to next.
Step(at, next) == pc = at /\ pc' = next /\ ran' = ran \cup {at}

\* return value
Return(at, value) == Step(at, "done") /\ result' = value

inputs == <<body, api_key>>
request == <<table_name, columns_list>>
answer == <<json_text, json_obj, recovered>>
extraction == <<sql_no_strings, backticked, select_part_clean, where_part, candidates>>

\* client = genai.Client(api_key=API_KEY).  The client class is the
\* google-genai library's; its construction is taken to succeed, and a missing
\* credential to fail the call of the model.
CreateClient ==
    /\ Step("client", "body")
    /\ UNCHANGED <<inputs, request, calls, call_failed, answer, sql, extraction,
                   result, raised>>

\* The three body.get and _normalize_columns.  body.get raises AttributeError
\* when body is no dict; the statement stands before the try.
ReadBody ==
    /\ pc = "body"
    /\ IF body.t # "dict"
       THEN /\ Step("body", "done")
            /\ raised' = "AttributeError"
            /\ UNCHANGED request
       ELSE /\ Step("body", "prompt")
            /\ table_name' = DictGet(body, "table_name", PyStr("")).v
            /\ columns_list' = _normalize_columns(DictGet(body, "columns_list", PyList(<<>>)))
            /\ UNCHANGED raised
    /\ UNCHANGED <<inputs, calls, call_failed, answer, sql, extraction, result>>

\* columns_str = ", ".join(columns_list) and the prompt, before the try.
BuildPrompt ==
    /\ pc = "prompt"
    /\ IF JoinRaises(columns_list)
       THEN Step("prompt", "done") /\ raised' = "TypeError"
       ELSE Step("prompt", "call") /\ UNCHANGED raised
    /\ UNCHANGED <<inputs, request, calls, call_failed, answer, sql, extraction, result>>

\* response = client.models.generate_content(...); json_text.  The call
\* raises (always when no credential is set), which the outer except turns
\* into a value, or it answers with one of the model's texts.
CallModel ==
    /\ pc = "call"
    /\ calls' = calls + 1
    /\ \/ /\ call_failed' = TRUE
          /\ Return("call", Error("Internal processing error"))
          /\ UNCHANGED json_text
       \/ /\ api_key
          /\ \E text \in ModelTexts(body) : json_text' = text
          /\ Step("call", "parse")
          /\ UNCHANGED <<call_failed, result>>
    /\ UNCHANGED <<inputs, request, json_obj, recovered, sql, extraction, raised>>

\* json.loads(json_text); on JSONDecodeError the search for a brace span and
\* json.loads of it, whose JSONDecodeError reaches the outer except.
ParseJson ==
    /\ pc = "parse"
    /\ IF JsonLoadsOk(json_text)
       THEN /\ json_obj' = JsonLoads(json_text)
            /\ Step("parse", "validate")
            /\ UNCHANGED <<recovered, result>>
       ELSE IF ~BraceSpan(json_text).found
       THEN /\ Return("parse", Error("Invalid JSON from model"))
            /\ UNCHANGED <<json_obj, recovered>>
       ELSE IF JsonLoadsOk(BraceSpan(json_text).span)
       THEN /\ json_obj' = JsonLoads(BraceSpan(json_text).span)
            /\ recovered' = TRUE
            /\ Step("parse", "validate")
            /\ UNCHANGED result
       ELSE /\ Return("parse", Error("Internal processing error"))
            /\ UNCHANGED <<json_obj, recovered>>
    /\ UNCHANGED <<inputs, request, calls, call_failed, json_text, sql, extraction, raised>>

\* SQLResult.model_validate(json_obj)
ValidateStructure ==
    /\ pc = "validate"
    /\ IF ModelValidateOk(json_obj)
       THEN Step("validate", "sql") /\ UNCHANGED result
       ELSE Return("validate", Error("Invalid SQL structure from model"))
    /\ UNCHANGED <<inputs, request, calls, call_failed, answer, sql, extraction, raised>>

\* sql = (json_obj.get("sql") or "").strip(); if not sql: return
ExtractSql ==
    /\ pc = "sql"
    /\ sql' = SqlOf(json_obj)
    /\ IF sql' = ""
       THEN Return("sql", Error("Model returned empty SQL"))
       ELSE Step("sql", "always_false") /\ UNCHANGED result
    /\ UNCHANGED <<inputs, request, calls, call_failed, answer, extraction, raised>>

\* The loop over always_false_patterns.
CheckAlwaysFalse ==
    /\ pc = "always_false"
    /\ IF AlwaysFalse(Lower(sql))
       THEN Return("always_false", Error("Query cannot be created from the given input"))
       ELSE Step("always_false", "self_error") /\ UNCHANGED result
    /\ UNCHANGED <<inputs, request, calls, call_failed, answer, sql, extraction, raised>>

\* The test for an error the model reports in the SQL itself.
CheckSelfReportedError ==
    /\ pc = "self_error"
    /\ IF SelfReportedError(Lower(sql))
       THEN Return("self_error", Error("Invalid column used in query"))
       ELSE Step("self_error", "extract") /\ UNCHANGED result
    /\ UNCHANGED <<inputs, request, calls, call_failed, answer, sql, extraction, raised>>

\* From sql_no_strings to candidates.
ExtractIdentifiers ==
    /\ Step("extract", "match")
    /\ \E sns \in {StripLiterals(sql)} :
       \E spc \in {SelectPartClean(SelectPart(sns))} :
       \E wp \in {WherePart(sns)} :
       \E bt \in {Backticked(sns)} :
          /\ sql_no_strings' = sns
          /\ backticked' = bt
          /\ select_part_clean' = spc
          /\ where_part' = wp
          /\ candidates' = Candidates(bt, Tokens(spc), Tokens(wp))
    /\ UNCHANGED <<inputs, request, calls, call_failed, answer, sql, result, raised>>

\* The column names, all strings once the prompt is built.
Names == [i \in 1..Len(columns_list) |-> columns_list[i].v]

\* allowed_words, allowed_full, unknowns and the final return.
ValidateIdentifiers ==
    /\ pc = "match"
    /\ \E aw \in {allowed_words(Names, table_name)} :
       \E af \in {allowed_full(Names, table_name)} :
          IF Unknowns(candidates, aw, af) # {}
          THEN Return("match", Error("Invalid column used in query"))
          ELSE Return("match", Success(sql))
    /\ UNCHANGED <<inputs, request, calls, call_failed, answer, sql, extraction, raised>>

Next ==
    \/ CreateClient
    \/ ReadBody
    \/ BuildPrompt
    \/ CallModel
    \/ ParseJson
    \/ ValidateStructure
    \/ ExtractSql
    \/ CheckAlwaysFalse
    \/ CheckSelfReportedError
    \/ ExtractIdentifiers
    \/ ValidateIdentifiers

Spec == Init /\ [][Next]_vars

(***************************************************************************)
(* What the claims speak of, read off the text of the SQL by the rules of  *)
(* SQL and not by the regular expressions of ai_sql.                       *)
(***************************************************************************)
Done == pc = "done"

InternalError == Error("Internal processing error")

InvalidColumn == Error("Invalid column used in query")

\* The end of a string literal opened before p with quote q (a doubled quote
\* stands for the quote itself), 0 when the literal is not closed.
RECURSIVE RefLiteralEnd(_, _, _)
RefLiteralEnd(s, p, q) ==
    LET n == Find(s, q, p)
    IN  IF n = 0 THEN 0
        ELSE IF Ch(s, n + 1) = q THEN RefLiteralEnd(s, n + 2, q)
        ELSE n

\* The SQL from i on, split by a lexer: the contents of its string literals,
\* the contents of its backticked names, the text outside both, and whether
\* every literal and name is closed.
RECURSIVE RefLex(_, _)
RefLex(s, i) ==
    LET opens == {j \in i..Len(s) : Ch(s, j) \in {"'", "\"", BT}}
        o == Least(opens)
        q == Ch(s, o)
        e == IF q = BT THEN Find(s, BT, o + 1) ELSE RefLiteralEnd(s, o + 1, q)
        rest == RefLex(s, e + 1)
    IN  IF opens = {}
        THEN [ok |-> TRUE, lits |-> <<>>, names |-> <<>>, outside |-> SubSeq(s, i, Len(s))]
        ELSE IF e = 0
        THEN [ok |-> FALSE, lits |-> <<>>, names |-> <<>>, outside |-> SubSeq(s, i, o - 1)]
        ELSE [ok |-> rest.ok,
              lits |-> (IF q = BT THEN <<>> ELSE <<SubSeq(s, o + 1, e - 1)>>) \o rest.lits,
              names |-> (IF q = BT THEN <<SubSeq(s, o + 1, e - 1)>> ELSE <<>>) \o rest.names,
              outside |-> SubSeq(s, i, o - 1) \o " " \o rest.outside]

\* The lower-cased words of every text of a sequence.
WordsOfAll(texts) == UNION {Range(Words(Lower(texts[i]))) : i \in 1..Len(texts)}

\* The words that stand in a string literal of the SQL and nowhere else.
LiteralOnlyWords(q) ==
    LET lx == RefLex(q, 1)
    IN  WordsOfAll(lx.lits) \ (WordsOfAll(lx.names) \cup Range(Words(Lower(lx.outside))))

\* The SQL names no identifier but x: each backticked name is x in some letter
\* case, and outside them stand only x as a bare word, stoplist keywords,
\* numbers and punctuation, with no string literal; x occurs at least once.
OnlyRefersTo(q, x) ==
    LET lx == RefLex(q, 1)
        bare == Range(Words(Lower(lx.outside)))
    IN  /\ lx.ok
        /\ lx.lits = <<>>
        /\ \A i \in 1..Len(lx.names) : Lower(lx.names[i]) = Lower(x)
        /\ \A w \in bare : AllDigits(w) \/ w \in sql_keywords \/ w = Lower(x)
        /\ (lx.names # <<>> \/ Lower(x) \in bare)

\* WHERE 1=0 in any letter case, with any whitespace around the equals sign
HasWhereOneEqualsZero(q) ==
    LET l == Lower(q)
    IN  \E i \in 1..Len(l) :
           /\ StartsAt(l, i, "where")
           /\ RunEnd(l, i + 5, Space) > i + 5
           /\ MatchSpaced(l, RunEnd(l, i + 5, Space), <<"1", "=", "0">>, 0)

\* The columns the SELECT list selects as plain names: a word that opens the
\* list, follows a comma or follows DISTINCT (not a word after AS or after
\* another name, which is an alias, and no word of a backticked name).
SelectedColumns(q) ==
    LET sp == _extract_clause(q, "select", <<"from">>)
        prev(j) == RunStartBack(sp, j - 1, Space)
        prevWord(j) == SubSeq(sp, RunStartBack(sp, prev(j), WordCh) + 1, prev(j))
    IN  {SubSeq(sp, j, RunEnd(sp, j, WordCh) - 1) :
            j \in {k \in 1..Len(sp) :
                      /\ Ch(sp, k) \in IdStart
                      /\ WordBoundary(sp, k)
                      /\ \/ prev(k) = 0
                         \/ Ch(sp, prev(k)) = ","
                         \/ prev(k) < k - 1 /\ Lower(prevWord(k)) = "distinct"}}

\* A name that is no number and no stoplist keyword.
IsIdentifier(w) == ~AllDigits(w) /\ Lower(w) \notin sql_keywords

\* The WHERE clause as the text after the first WHERE that ends at the
\* earliest of GROUP, ORDER, LIMIT and a ";".
RefWherePart(s) ==
    LET g == ClauseStart(s, Lower(s), "where")
        rest == SubSeq(s, g, Len(s))
        hits == ({StopAt(rest, Lower(rest), kw) : kw \in {"group", "order", "limit"}}
                    \cup {Find(rest, ";", 1)}) \ {0}
    IN  IF g = 0 THEN ""
        ELSE IF hits = {} THEN rest
        ELSE SubSeq(rest, 1, Least(hits) - 1)

\* The sql field of the parsed answer, as the model wrote it.
SqlField == json_obj.v["sql"].v

\* The request allows no name at all.
NothingAllowed == columns_list = <<>> /\ table_name = ""

(***************************************************************************)
(* The claims.                                                             *)
(***************************************************************************)
\* C1: no exception escapes ai_sql: every call ends by returning a value of
\* status success or error, whatever the body holds.
C1_NoExceptionEscapes ==
    Done => raised = "" /\ result.status \in {"success", "error"}

\* C2: when the request lists a column X and the SQL of a validated answer
\* that reached identifier validation names no identifier but X, verbatim in
\* any letter case, every kept candidate is accepted by matches_allowed and
\* ai_sql returns success with that SQL.
C2_ListedColumnAccepted ==
    (Done /\ "match" \in ran
        /\ \E i \in 1..Len(Names) : OnlyRefersTo(sql, Names[i]))
    => \A aw \in {allowed_words(Names, table_name)} :
       \A af \in {allowed_full(Names, table_name)} :
          /\ \A c \in Kept(candidates) : matches_allowed(c, aw, af)
          /\ result = Success(sql)

\* C3: a word that stands only inside a single-quoted or double-quoted string
\* literal of the SQL is never among the candidate identifiers.
C3_LiteralWordsNotCandidates ==
    (pc = "match" /\ RefLex(sql, 1).ok)
    => LiteralOnlyWords(sql) \cap candidates = {}

\* C4: a validated answer whose sql holds WHERE 1=0, in any letter case and
\* with any whitespace around the equals sign, is answered with the error
\* "Query cannot be created from the given input", and neither the
\* self-reported-error check nor the identifier validation runs.
C4_WhereOneEqualsZeroRejected ==
    (Done /\ "validate" \in ran /\ ModelValidateOk(json_obj)
        /\ HasWhereOneEqualsZero(SqlField))
    => /\ result = Error("Query cannot be created from the given input")
       /\ ran \cap {"self_error", "extract", "match"} = {}

\* A call in which the always-false check decided although the whitespace
\* was not of the plain form and the self-reported-error check would have
\* answered too.
C4_Witness ==
    /\ Done
    /\ ModelValidateOk(json_obj)
    /\ HasWhereOneEqualsZero(SqlField)
    /\ ~Contains(Lower(SqlField), "1=0")
    /\ SelfReportedError(Lower(sql))
    /\ result = Error("Query cannot be created from the given input")

\* C5: when the SELECT list of an SQL that reached identifier validation
\* selects a column, also right after DISTINCT, that is longer than one
\* character, no number, no stoplist keyword and not accepted by
\* matches_allowed, the result is the error "Invalid column used in query".
C5_UnknownSelectedColumnRejected ==
    (Done /\ "match" \in ran /\ RefLex(sql, 1).lits = <<>>
        /\ \A aw \in {allowed_words(Names, table_name)} :
           \A af \in {allowed_full(Names, table_name)} :
              \E w \in SelectedColumns(sql) :
                 /\ Len(w) > 1
                 /\ IsIdentifier(w)
                 /\ ~matches_allowed(Lower(w), aw, af))
    => result = InvalidColumn

\* C6 as stated: with an empty columns list and an empty table name, any SQL
\* that reaches identifier validation and holds a non-numeric identifier is
\* rejected with "Invalid column used in query".
C6_AnyIdentifierRejected ==
    (Done /\ "match" \in ran /\ NothingAllowed
        /\ \E w \in Range(Words(sql)) : IsIdentifier(w))
    => result = InvalidColumn

\* C6 amended: with an empty columns list and an empty table name, any SQL
\* that reaches identifier validation with a kept candidate (one taken from a
\* backticked name, the cleaned SELECT list or the WHERE clause, longer than
\* one character and no stoplist keyword) that is not all digits is rejected
\* with "Invalid column used in query".
C6_AnyKeptCandidateRejected ==
    (Done /\ "match" \in ran /\ NothingAllowed
        /\ \E c \in Kept(candidates) : ~AllDigits(c))
    => result = InvalidColumn

\* A call with nothing allowed that was rejected for a candidate it kept.
C6_Witness ==
    /\ Done
    /\ "match" \in ran
    /\ NothingAllowed
    /\ \E c \in Kept(candidates) : ~AllDigits(c)
    /\ result = InvalidColumn

\* C7: when the answer is no valid JSON and the recovery finds no braces or
\* finds text between braces that does not parse, the result is the error
\* "Invalid JSON from model".
C7_UnparsableAnswerIsInvalidJson ==
    (Done /\ "parse" \in ran /\ ~JsonLoadsOk(json_text)
        /\ (BraceSpan(json_text).found => ~JsonLoadsOk(BraceSpan(json_text).span)))
    => result = Error("Invalid JSON from model")

\* C8: the WHERE clause taken for the identifier check is the text after
\* WHERE up to the first of GROUP, ORDER, LIMIT and ";".
C8_WhereEndsAtStop ==
    ("extract" \in ran) => where_part = RefWherePart(sql_no_strings)

\* C9: on every path the model is invoked exactly once, and when that
\* invocation raises the result is "Internal processing error" with no later
\* step run.
C9_ModelInvokedOnce ==
    Done => /\ calls = 1
            /\ call_failed =>
                  /\ result = InternalError
                  /\ ran \cap {"parse", "validate", "sql", "always_false",
                               "self_error", "extract", "match"} = {}

\* C10: a success result carries the stripped sql field of a validated
\* answer: a non-empty SQL that matches no always-false pattern and no
\* self-reported-error pattern and whose every kept candidate is accepted by
\* matches_allowed.
C10_SuccessPassedEveryStage ==
    (result.status = "success")
    => /\ ModelValidateOk(json_obj)
       /\ result.sql = Strip(SqlField)
       /\ result.sql # ""
       /\ ~AlwaysFalse(Lower(result.sql))
       /\ ~SelfReportedError(Lower(result.sql))
       /\ \A aw \in {allowed_words(Names, table_name)} :
          \A af \in {allowed_full(Names, table_name)} :
             \A c \in Kept(Candidates(Backticked(StripLiterals(result.sql)),
                                      Tokens(SelectPartClean(SelectPart(StripLiterals(result.sql)))),
                                      Tokens(WherePart(StripLiterals(result.sql))))) :
                matches_allowed(c, aw, af)

\* A success for an SQL with a candidate that had to be matched.
C10_Witness ==
    /\ result.status = "success"
    /\ Kept(candidates) # {}

====
